---- MODULE Spec2Model ----
(***************************************************************************)
(* RedisClient (src/main.py): the loader and query layer over a Redis      *)
(* store.  Text is modelled character by character (a string is a sequence *)
(* of one-character strings), the store as one key space holding hashes    *)
(* and sorted sets, and every public method as one action that runs the    *)
(* whole method, its except clause included.                               *)
(***************************************************************************)
EXTENDS Integers, Sequences, FiniteSets, TLC

VARIABLES redis, conn, db, last

vars == <<redis, conn, db, last>>

\* what last holds of a call: the method, its arguments, what it returned, the
\* exception its except clause caught, the commands it sent and the store
\* before it
Call(op, args, ret, exc, log, before) ==
    [op |-> op, args |-> args, ret |-> ret, exc |-> exc, log |-> log,
     before |-> before]

----------------------------------------------------------------------------
(* Bounds of the model *)

\* lines of one attribute file
MaxLines == 2
\* rows after the header of one score file
MaxRows == 3
\* the store command of a call, counted from 1, that the store may fail
MaxFail == 2
\* largest limit passed to get_top_players
MaxLimit == 2

----------------------------------------------------------------------------
(* Text: Python's str and csv functions on character sequences *)

Q == "\""
SP == " "
NL == "\n"

Whitespace == {SP, NL}

Digits == <<"0", "1", "2", "3", "4", "5", "6", "7", "8", "9">>

IsDigit(c) == \E d \in 1..10 : Digits[d] = c

DigitVal(c) == (CHOOSE d \in 1..10 : Digits[d] = c) - 1

\* the characters of the model's texts in code point order (str comparison,
\* which Redis uses to order sorted-set members of equal score)
CodeOrder == <<NL, SP, Q, "+", ",", "-", "0", "1", "2", "3", "4", "5", "6",
               "7", "8", "9", ":", "@", "_", "a", "b", "c", "d", "e", "f",
               "g", "i", "k", "l", "m", "n", "o", "r", "s", "t", "u", "x",
               "y">>

Code(c) == CHOOSE i \in 1..Len(CodeOrder) : CodeOrder[i] = c

RECURSIVE StrLess(_, _)
StrLess(s, t) ==
    IF t = <<>> THEN FALSE
    ELSE IF s = <<>> THEN TRUE
    ELSE IF Head(s) = Head(t) THEN StrLess(Tail(s), Tail(t))
    ELSE Code(Head(s)) < Code(Head(t))

\* s.strip(chars): every leading and every trailing character of chars goes
RECURSIVE LStrip(_, _)
LStrip(s, chars) ==
    IF s # <<>> /\ Head(s) \in chars THEN LStrip(Tail(s), chars) ELSE s

RECURSIVE RStrip(_, _)
RStrip(s, chars) ==
    IF s # <<>> /\ s[Len(s)] \in chars
    THEN RStrip(SubSeq(s, 1, Len(s) - 1), chars)
    ELSE s

Strip(s, chars) == RStrip(LStrip(s, chars), chars)

\* s.split(sep) for a non-empty sep: left to right, non-overlapping
RECURSIVE SplitFrom(_, _, _, _)
SplitFrom(s, sep, i, start) ==
    IF i + Len(sep) - 1 > Len(s) THEN << SubSeq(s, start, Len(s)) >>
    ELSE IF SubSeq(s, i, i + Len(sep) - 1) = sep
         THEN << SubSeq(s, start, i - 1) >>
              \o SplitFrom(s, sep, i + Len(sep), i + Len(sep))
         ELSE SplitFrom(s, sep, i + 1, start)

Split(s, sep) == SplitFrom(s, sep, 1, 1)

RECURSIVE DigitsValue(_, _)
DigitsValue(s, acc) ==
    IF s = <<>> THEN acc
    ELSE DigitsValue(Tail(s), 10 * acc + DigitVal(Head(s)))

\* int(s): surrounding whitespace, an optional sign, then digits only;
\* anything else raises ValueError (ok = FALSE)
ParseInt(s) ==
    LET t == Strip(s, Whitespace)
        signed == t # <<>> /\ Head(t) \in {"+", "-"}
        body == IF signed THEN Tail(t) ELSE t
        good == body # <<>> /\ \A i \in 1..Len(body) : IsDigit(body[i])
        mag == IF good THEN DigitsValue(body, 0) ELSE 0
    IN  [ok |-> good,
         val |-> IF signed /\ Head(t) = "-" THEN 0 - mag ELSE mag]

\* float(s): an int literal as above, or inf, infinity or nan with an optional
\* sign; the texts of the model hold no '.', no exponent and no capital letter.
\* finite = FALSE for inf and nan, which compare false against every bound
ParseFloat(s) ==
    LET t == Strip(s, Whitespace)
        signed == t # <<>> /\ Head(t) \in {"+", "-"}
        body == IF signed THEN Tail(t) ELSE t
        special == body \in {<<"i", "n", "f">>, <<"n", "a", "n">>,
                             <<"i", "n", "f", "i", "n", "i", "t", "y">>}
        p == ParseInt(s)
    IN  [ok |-> p.ok \/ special, finite |-> p.ok, val |-> p.val]

\* the fields of one attribute line:
\* [f.strip('"') for f in line.strip().split('" "')]
Fields(line) ==
    LET parts == Split(Strip(line, Whitespace), <<Q, SP, Q>>)
    IN  [i \in 1..Len(parts) |-> Strip(parts[i], {Q})]

\* one row of csv.reader for a line that holds no quote character: the line
\* without its terminator, cut at every comma; an empty line is the row []
CsvRow(line) ==
    LET body == RStrip(line, {NL})
    IN  IF body = <<>> THEN <<>> ELSE Split(body, <<",">>)

----------------------------------------------------------------------------
(* Python values *)

None == [some |-> FALSE]

Some(v) == [some |-> TRUE, val |-> v]

\* {} : the dict (and the hash) with no key
EmptyDict == [k \in {} |-> <<>>]

\* the names the code gives to attributes and values
last_name == <<"l", "a", "s", "t", "_", "n", "a", "m", "e">>
email == <<"e", "m", "a", "i", "l">>
gender == <<"g", "e", "n", "d", "e", "r">>
female == <<"f", "e", "m", "a", "l", "e">>
country == <<"c", "o", "u", "n", "t", "r", "y">>
latitude == <<"l", "a", "t", "i", "t", "u", "d", "e">>
longitude == <<"l", "o", "n", "g", "i", "t", "u", "d", "e">>
UserPrefix == <<"u", "s", "e", "r", ":">>

----------------------------------------------------------------------------
(* The store: one key space; a key holds a hash (field -> value) or a      *)
(* sorted set (a set of <<member, score>>)                                 *)

EmptyDb == [k \in {} |-> <<>>]

IsHash(d, key) == key \in DOMAIN d /\ d[key].type = "hash"

IsZSet(d, key) == key \in DOMAIN d /\ d[key].type = "zset"

HashOf(d, key) == IF IsHash(d, key) THEN d[key].val ELSE EmptyDict

ZSetOf(d, key) == IF IsZSet(d, key) THEN d[key].val ELSE {}

\* a store reply: err is "None" or the exception redis-py raises
Reply(err, val, d) == [err |-> err, val |-> val, db |-> d]

\* HSet as a write that puts the mapping in the place of the stored hash
HSetReplacing(d, key, mapping) ==
    IF IsZSet(d, key) THEN Reply("ResponseError", None, d)
    ELSE Reply("None", None, (key :> [type |-> "hash", val |-> mapping]) @@ d)

\* HSET key field value [field value ...]: sets the named fields and leaves
\* every other field of the hash as it is
HSet(d, key, mapping) ==
    IF IsZSet(d, key) THEN Reply("ResponseError", None, d)
    ELSE Reply("None", None,
               (key :> [type |-> "hash", val |-> mapping @@ HashOf(d, key)]) @@ d)

\* ZAdd as a write that adds score to the score the member has (ZINCRBY)
ZAddIncrementing(d, key, member, score) ==
    IF IsHash(d, key) THEN Reply("ResponseError", None, d)
    ELSE LET old == {e \in ZSetOf(d, key) : e[1] = member}
             sum == IF old = {} THEN score ELSE (CHOOSE e \in old : TRUE)[2] + score
         IN  Reply("None", None,
                   (key :> [type |-> "zset",
                            val |-> (ZSetOf(d, key) \ old) \cup {<<member, sum>>}]) @@ d)

\* ZADD key score member: the member's score becomes score
ZAdd(d, key, member, score) ==
    IF IsHash(d, key) THEN Reply("ResponseError", None, d)
    ELSE Reply("None", None,
               (key :> [type |-> "zset",
                        val |-> {e \in ZSetOf(d, key) : e[1] # member}
                                \cup {<<member, score>>}]) @@ d)

HGetAll(d, key) ==
    IF IsZSet(d, key) THEN Reply("ResponseError", None, d)
    ELSE Reply("None", HashOf(d, key), d)

HGet(d, key, field) ==
    IF IsZSet(d, key) THEN Reply("ResponseError", None, d)
    ELSE Reply("None",
               IF field \in DOMAIN HashOf(d, key)
               THEN Some(HashOf(d, key)[field]) ELSE None, d)

\* sorted-set order, highest first: by score, then by member
RanksBefore(a, b) == a[2] > b[2] \/ (a[2] = b[2] /\ StrLess(b[1], a[1]))

RECURSIVE Descending(_)
Descending(S) ==
    IF S = {} THEN <<>>
    ELSE LET top == CHOOSE a \in S : \A b \in S \ {a} : RanksBefore(a, b)
         IN  <<top[1]>> \o Descending(S \ {top})

\* ZREVRANGE key start stop: a negative index counts from the end
ZRevRange(d, key, start, stop) ==
    IF IsHash(d, key) THEN Reply("ResponseError", None, d)
    ELSE LET all == Descending(ZSetOf(d, key))
             n == Len(all)
             from == IF start < 0 THEN (IF n + start < 0 THEN 0 ELSE n + start)
                     ELSE start
             to == IF stop < 0 THEN n + stop
                   ELSE IF stop >= n THEN n - 1 ELSE stop
         IN  Reply("None", SubSeq(all, from + 1, to + 1), d)

HasPrefix(s, p) == Len(s) >= Len(p) /\ SubSeq(s, 1, Len(p)) = p

\* the keys SCAN MATCH user:* goes through
UserKeys(d) == {k \in DOMAIN d : HasPrefix(k, UserPrefix)}

FlushDb(d) == Reply("None", None, EmptyDb)

----------------------------------------------------------------------------
(* The session and the public methods.  A method's result is                *)
(* [ret, exc, db, log]: the value returned, the exception its except       *)
(* clause caught ("None" when none was raised), the store afterwards and   *)
(* the commands the call sent to the store, in order.                      *)

\* the source that cannot be opened (no text is made of this character)
NoFile == <<<<"NoFile">>>>

Result(ret, exc, d, log) == [ret |-> ret, exc |-> exc, db |-> d, log |-> log]

\* self.redis.<command>(...): on the session of __init__ (None) the attribute
\* access raises and nothing is sent; otherwise the command is sent, and
\* the store fails it when it is the failAt-th command of the call
Send(cmd, reply, d, log, failAt) ==
    IF redis = "None" THEN [err |-> "AttributeError", val |-> None, db |-> d, log |-> log]
    ELSE IF Len(log) + 1 = failAt
         THEN [err |-> "ConnectionError", val |-> None, db |-> d,
               log |-> Append(log, [cmd |-> cmd, ok |-> FALSE])]
         ELSE [err |-> reply.err, val |-> reply.val, db |-> reply.db,
               log |-> Append(log, [cmd |-> cmd, ok |-> reply.err = "None"])]

\* {fields[i]: fields[i+1] for i in range(1, len(fields)-1, 2)}; i is the
\* 1-based place of fields[i] of the code, so it runs 2, 4, ... <= len - 1
RECURSIVE UserDataFrom(_, _, _)
UserDataFrom(fields, i, acc) ==
    IF i > Len(fields) - 1 THEN acc
    ELSE UserDataFrom(fields, i + 2, (fields[i] :> fields[i + 1]) @@ acc)

\* UserData with the pairs read from the id on: range(0, len(fields)-1, 2)
UserDataFromTheId(fields) == UserDataFrom(fields, 1, EmptyDict)

UserData(fields) == UserDataFrom(fields, 2, EmptyDict)

\* ValidLine with the test len(fields) < 2
ValidLineOfTwo(fields) == ~(Len(fields) < 2)

\* a line with fewer than 3 fields is skipped
ValidLine(fields) == ~(Len(fields) < 3)

RECURSIVE LoadUsersLoop(_, _, _, _, _)
LoadUsersLoop(lines, i, d, log, failAt) ==
    IF i > Len(lines) THEN Result(TRUE, "None", d, log)
    ELSE LET fields == Fields(lines[i])
         IN  IF ~ValidLine(fields) THEN LoadUsersLoop(lines, i + 1, d, log, failAt)
             ELSE LET user_id == fields[1]
                      user_data == UserData(fields)
                      r == Send(<<"HSET", user_id, user_data>>,
                                HSet(d, user_id, user_data), d, log, failAt)
                  IN  IF r.err # "None" THEN Result(FALSE, r.err, r.db, r.log)
                      ELSE LoadUsersLoop(lines, i + 1, r.db, r.log, failAt)

\* LoadUsersLoop with the write in a try of its own: a failed write is logged
\* and the loop goes on
RECURSIVE LoadUsersLoopTolerant(_, _, _, _, _)
LoadUsersLoopTolerant(lines, i, d, log, failAt) ==
    IF i > Len(lines) THEN Result(TRUE, "None", d, log)
    ELSE LET fields == Fields(lines[i])
         IN  IF ~ValidLine(fields)
             THEN LoadUsersLoopTolerant(lines, i + 1, d, log, failAt)
             ELSE LET r == Send(<<"HSET", fields[1], UserData(fields)>>,
                                HSet(d, fields[1], UserData(fields)), d, log, failAt)
                  IN  LoadUsersLoopTolerant(lines, i + 1, r.db, r.log, failAt)

load_users_tolerant(file, d, failAt) ==
    IF file = NoFile THEN Result(FALSE, "FileNotFoundError", d, <<>>)
    ELSE LoadUsersLoopTolerant(file, 1, d, <<>>, failAt)

load_users(file, d, failAt) ==
    IF file = NoFile THEN Result(FALSE, "FileNotFoundError", d, <<>>)
    ELSE LoadUsersLoop(file, 1, d, <<>>, failAt)

\* a row with fewer than 3 fields is skipped
ValidRow(row) == ~(Len(row) < 3)

RECURSIVE LoadScoresLoop(_, _, _, _, _)
LoadScoresLoop(lines, i, d, log, failAt) ==
    IF i > Len(lines) THEN Result(TRUE, "None", d, log)
    ELSE LET row == CsvRow(lines[i])
         IN  IF ~ValidRow(row) THEN LoadScoresLoop(lines, i + 1, d, log, failAt)
             ELSE LET score == ParseInt(row[3])
                      r == Send(<<"ZADD", row[1], row[2], score.val>>,
                                ZAdd(d, row[1], row[2], score.val), d, log, failAt)
                  IN  IF ~score.ok THEN Result(FALSE, "ValueError", d, log)
                      ELSE IF r.err # "None" THEN Result(FALSE, r.err, r.db, r.log)
                      ELSE LoadScoresLoop(lines, i + 1, r.db, r.log, failAt)

\* LoadScoresLoop with a score that is no integer skipped like a short row
RECURSIVE LoadScoresLoopSkipping(_, _, _, _, _)
LoadScoresLoopSkipping(lines, i, d, log, failAt) ==
    IF i > Len(lines) THEN Result(TRUE, "None", d, log)
    ELSE LET row == CsvRow(lines[i])
         IN  IF ~ValidRow(row) \/ ~ParseInt(row[3]).ok
             THEN LoadScoresLoopSkipping(lines, i + 1, d, log, failAt)
             ELSE LET r == Send(<<"ZADD", row[1], row[2], ParseInt(row[3]).val>>,
                                ZAdd(d, row[1], row[2], ParseInt(row[3]).val), d, log, failAt)
                  IN  IF r.err # "None" THEN Result(FALSE, r.err, r.db, r.log)
                      ELSE LoadScoresLoopSkipping(lines, i + 1, r.db, r.log, failAt)

load_scores_skipping(file, d, failAt) ==
    IF file = NoFile THEN Result(FALSE, "FileNotFoundError", d, <<>>)
    ELSE IF file = <<>> THEN Result(FALSE, "StopIteration", d, <<>>)
    ELSE LoadScoresLoopSkipping(file, 2, d, <<>>, failAt)

\* next(reader) skips the first row; on a file with no row it raises
\* StopIteration, which the except clause catches
load_scores(file, d, failAt) ==
    IF file = NoFile THEN Result(FALSE, "FileNotFoundError", d, <<>>)
    ELSE IF file = <<>> THEN Result(FALSE, "StopIteration", d, <<>>)
    ELSE LoadScoresLoop(file, 2, d, <<>>, failAt)

get_user_data(user_id, d, failAt) ==
    LET r == Send(<<"HGETALL", user_id>>, HGetAll(d, user_id), d, <<>>, failAt)
    IN  IF r.err # "None" THEN Result(None, r.err, d, r.log)
        ELSE Result(IF r.val # EmptyDict THEN Some(r.val) ELSE None, "None", d, r.log)

\* a str is true when it is not empty
Truthy(v) == v.some /\ v.val # <<>>

get_user_coordinates(user_id, d, failAt) ==
    LET lon == Send(<<"HGET", user_id, longitude>>, HGet(d, user_id, longitude),
                    d, <<>>, failAt)
        lat == Send(<<"HGET", user_id, latitude>>, HGet(d, user_id, latitude),
                    d, lon.log, failAt)
    IN  IF lon.err # "None" THEN Result(None, lon.err, d, lon.log)
        ELSE IF lat.err # "None" THEN Result(None, lat.err, d, lat.log)
        ELSE Result(IF Truthy(lon.val) /\ Truthy(lat.val)
                    THEN Some(<<lon.val.val, lat.val.val>>) ELSE None,
                    "None", d, lat.log)

\* EvenId with the test % 2 == 1
OddId(key) ==
    LET p == ParseInt(Split(key, <<":">>)[2])
    IN  [ok |-> p.ok, even |-> p.val % 2 = 1]

\* int(key.split(':')[1]) % 2 == 0
EvenId(key) ==
    LET p == ParseInt(Split(key, <<":">>)[2])
    IN  [ok |-> p.ok, even |-> p.val % 2 = 0]

RECURSIVE EvenLoop(_, _, _, _, _, _, _)
EvenLoop(scan, i, d, log, failAt, keys, last_names) ==
    IF i > Len(scan) THEN Result(<<keys, last_names>>, "None", d, log)
    ELSE LET e == EvenId(scan[i])
             r == Send(<<"HGET", scan[i], last_name>>, HGet(d, scan[i], last_name),
                       d, log, failAt)
         IN  IF ~e.ok THEN Result(<<<<>>, <<>>>>, "ValueError", d, log)
             ELSE IF ~e.even
                  THEN EvenLoop(scan, i + 1, d, log, failAt, keys, last_names)
             ELSE IF r.err # "None" THEN Result(<<<<>>, <<>>>>, r.err, d, r.log)
             ELSE EvenLoop(scan, i + 1, d, r.log, failAt,
                           Append(keys, scan[i]), Append(last_names, r.val))

\* scan is the order in which scan_iter("user:*") yields the keys
get_users_by_even_id(scan, d, failAt) ==
    LET s == Send(<<"SCAN", UserPrefix>>, Reply("None", scan, d), d, <<>>, failAt)
    IN  IF s.err # "None" THEN Result(<<<<>>, <<>>>>, s.err, d, s.log)
        ELSE EvenLoop(scan, 1, d, s.log, failAt, <<>>, <<>>)

\* user_data.get('gender') == 'female' and user_data.get('country') in
\* countries and min_lat <= float(user_data.get('latitude', 0)) <= max_lat,
\* evaluated left to right: float() runs only when the first two hold
RegionTest(user_data, countries, min_lat, max_lat) ==
    LET g == gender \in DOMAIN user_data /\ user_data[gender] = female
        c == country \in DOMAIN user_data /\ user_data[country] \in countries
        lat == IF latitude \in DOMAIN user_data
               THEN ParseFloat(user_data[latitude])
               ELSE [ok |-> TRUE, finite |-> TRUE, val |-> 0]
    IN  IF ~(g /\ c) THEN [ok |-> TRUE, keep |-> FALSE]
        ELSE [ok |-> lat.ok,
              keep |-> lat.ok /\ lat.finite /\ min_lat <= lat.val /\ lat.val <= max_lat]

RECURSIVE RegionLoop(_, _, _, _, _, _, _, _, _)
RegionLoop(scan, i, d, log, failAt, countries, min_lat, max_lat, matching_users) ==
    IF i > Len(scan) THEN Result(matching_users, "None", d, log)
    ELSE LET r == Send(<<"HGETALL", scan[i]>>, HGetAll(d, scan[i]), d, log, failAt)
             t == RegionTest(r.val, countries, min_lat, max_lat)
         IN  IF r.err # "None" THEN Result(<<>>, r.err, d, r.log)
             ELSE IF ~t.ok THEN Result(<<>>, "ValueError", d, r.log)
             ELSE RegionLoop(scan, i + 1, d, r.log, failAt, countries, min_lat, max_lat,
                             IF t.keep THEN Append(matching_users, r.val)
                             ELSE matching_users)

get_female_users_in_region(countries, min_lat, max_lat, scan, d, failAt) ==
    LET s == Send(<<"SCAN", UserPrefix>>, Reply("None", scan, d), d, <<>>, failAt)
    IN  IF s.err # "None" THEN Result(<<>>, s.err, d, s.log)
        ELSE RegionLoop(scan, 1, d, s.log, failAt, countries, min_lat, max_lat, <<>>)

RECURSIVE EmailLoop(_, _, _, _, _, _)
EmailLoop(top_players, i, d, log, failAt, emails) ==
    IF i > Len(top_players) THEN Result(emails, "None", d, log)
    ELSE LET r == Send(<<"HGET", top_players[i], email>>, HGet(d, top_players[i], email),
                       d, log, failAt)
         IN  IF r.err # "None" THEN Result(<<>>, r.err, d, r.log)
             ELSE EmailLoop(top_players, i + 1, d, r.log, failAt, Append(emails, r.val))

get_top_players(leaderboard, limit, d, failAt) ==
    LET z == Send(<<"ZREVRANGE", leaderboard, 0, limit - 1>>,
                  ZRevRange(d, leaderboard, 0, limit - 1), d, <<>>, failAt)
    IN  IF z.err # "None" THEN Result(<<>>, z.err, d, z.log)
        ELSE EmailLoop(z.val, 1, d, z.log, failAt, <<>>)

clear_database(d, failAt) ==
    LET r == Send(<<"FLUSHDB">>, FlushDb(d), d, <<>>, failAt)
    IN  IF r.err # "None" THEN Result(FALSE, r.err, d, r.log)
        ELSE Result(TRUE, "None", r.db, r.log)

----------------------------------------------------------------------------
(* Inputs: the texts of the source files and the arguments of the queries  *)

Quoted(w) == <<Q>> \o w \o <<Q>>

RECURSIVE Joined(_, _)
Joined(words, sep) ==
    IF words = <<>> THEN <<>>
    ELSE IF Len(words) = 1 THEN Head(words)
    ELSE Head(words) \o sep \o Joined(Tail(words), sep)

\* an attribute line as section 6 of the spec writes it
AttrLine(tokens) ==
    Joined([i \in 1..Len(tokens) |-> Quoted(tokens[i])], <<SP>>) \o <<NL>>

CsvLine(cells) == Joined(cells, <<",">>) \o <<NL>>

user1 == UserPrefix \o <<"1">>
user2 == UserPrefix \o <<"2">>
user4 == UserPrefix \o <<"4">>
userx == UserPrefix \o <<"x">>
lb == <<"l", "b">>
lee == <<"l", "e", "e">>
kim == <<"k", "i", "m">>
mail == <<"l", "@", "x">>
india == <<"i", "n">>
male == <<"m", "a", "l", "e">>

\* the files of at most n lines over a set of lines
Files(lines, n) == UNION { [1..k -> lines] : k \in 0..n }

\* attribute lines: two records of user:1 with different attributes (the
\* second after leading blanks and with a space inside a value), a record
\* with a repeated key, a blank line, and an id with one token
UserLines ==
    { AttrLine(<<user1, last_name, lee, email, mail>>),
      <<SP, SP>> \o AttrLine(<<user1, last_name, <<"k", SP, "m">>>>),
      AttrLine(<<user2, <<"a">>, <<"x">>, <<"a">>, <<"y">>>>),
      <<NL>>,
      AttrLine(<<user2, <<"a">>>>) }

UserFiles == Files(UserLines, MaxLines) \cup {NoFile}

Header == CsvLine(<<<<"l">>, <<"u">>, <<"s">>>>)

\* score rows: two scores of user:1, a score that is no integer, and a row
\* of 2 cells
ScoreRows ==
    { CsvLine(<<lb, user1, <<"5">>>>),
      CsvLine(<<lb, user1, <<SP, "9">>>>),
      CsvLine(<<lb, user2, <<"x">>>>),
      CsvLine(<<lb, user2>>) }

\* a score file is empty, or a header and rows
ScoreFiles ==
    { <<Header>> \o rows : rows \in Files(ScoreRows, MaxRows) } \cup {<<>>, NoFile}

\* the users the leaderboard queries look up: user:1 has an email
EmailFiles == { <<AttrLine(<<user1, email, mail>>)>> }

\* the sources of the runs in which the store fails a command
FailUserFiles ==
    Files({ AttrLine(<<user1, email, mail>>),
            AttrLine(<<user2, <<"a">>, <<"x">>>>) }, MaxLines) \cup {NoFile}

FailScoreFiles ==
    { <<Header>> \o rows :
        rows \in Files({ CsvLine(<<lb, user1, <<"5">>>>),
                         CsvLine(<<lb, user2, <<"9">>>>) }, MaxLines) }

\* the records of the region query: in range, a latitude that is no number,
\* and no latitude at all
RegionLines ==
    { AttrLine(<<user1, gender, female, country, india, latitude, <<"1", "0">>,
                 longitude, <<"7">>>>),
      AttrLine(<<user2, gender, female, country, india, latitude, <<"x">>>>),
      AttrLine(<<user4, gender, female, country, india>>) }

\* one record a file: repeated loads build the store
RegionFiles == { <<line>> : line \in RegionLines }

\* the records of the even-id query: an even id with and without a last
\* name, an odd id, and an id that is no number
EvenLines ==
    { AttrLine(<<user2, last_name, lee>>),
      AttrLine(<<user4, gender, male>>),
      AttrLine(<<user1, last_name, kim>>),
      AttrLine(<<userx, last_name, kim>>) }

EvenFiles == { <<line>> : line \in EvenLines }

FailAts == 0..MaxFail

NoFail == {0}

UserIds == {user1, user2}

Leaderboards == {lb, user1}

Limits == 0..MaxLimit

CountryLists == {{india}}

\* the bounds of the latitude ranges
Latitudes == {0, 10}

\* the orders in which a scan may yield the keys of S
Orders(S) ==
    { o \in [1..Cardinality(S) -> S] :
        \A i, j \in 1..Cardinality(S) : i # j => o[i] # o[j] }

----------------------------------------------------------------------------
(* State and actions *)

\* redis: self.redis, "None" or the "client" of connect
\* conn:  what the latest connect returned ("never" before the first)
\* db:    the store
\* last:  the latest call: its name, arguments, result and the store before
Init ==
    /\ redis = "None"
    /\ conn = "never"
    /\ db = EmptyDb
    /\ last = Call("init", <<>>, None, "None", <<>>, EmptyDb)

Returns(op, args, r) ==
    /\ last' = Call(op, args, r.ret, r.exc, r.log, db)
    /\ db' = r.db
    /\ UNCHANGED <<redis, conn>>

\* connect: the client is assigned to self.redis before the ping
Connect ==
    \E pong \in BOOLEAN :
        /\ redis' = "client"
        /\ conn' = IF pong THEN "ok" ELSE "failed"
        /\ last' = Call("connect", <<>>, pong,
                         IF pong THEN "None" ELSE "ConnectionError",
                         <<[cmd |-> <<"PING">>, ok |-> pong]>>, db)
        /\ UNCHANGED db

LoadUsers(files, fails) ==
    \E file \in files, failAt \in fails :
        Returns("load_users", [file |-> file, failAt |-> failAt],
                load_users(file, db, failAt))

LoadScores(files, fails) ==
    \E file \in files, failAt \in fails :
        Returns("load_scores", [file |-> file, failAt |-> failAt],
                load_scores(file, db, failAt))

GetUserData(fails) ==
    \E user_id \in UserIds, failAt \in fails :
        Returns("get_user_data", [user_id |-> user_id, failAt |-> failAt],
                get_user_data(user_id, db, failAt))

GetUserCoordinates(fails) ==
    \E user_id \in UserIds, failAt \in fails :
        Returns("get_user_coordinates", [user_id |-> user_id, failAt |-> failAt],
                get_user_coordinates(user_id, db, failAt))

GetUsersByEvenId(fails) ==
    \E scan \in Orders(UserKeys(db)), failAt \in fails :
        Returns("get_users_by_even_id", [scan |-> scan, failAt |-> failAt],
                get_users_by_even_id(scan, db, failAt))

GetFemaleUsersInRegion(fails) ==
    \E countries \in CountryLists, min_lat \in Latitudes, max_lat \in Latitudes,
       scan \in Orders(UserKeys(db)), failAt \in fails :
        Returns("get_female_users_in_region",
                [countries |-> countries, min_lat |-> min_lat, max_lat |-> max_lat,
                 scan |-> scan, failAt |-> failAt],
                get_female_users_in_region(countries, min_lat, max_lat, scan, db, failAt))

GetTopPlayers(fails) ==
    \E leaderboard \in Leaderboards, limit \in Limits, failAt \in fails :
        Returns("get_top_players",
                [leaderboard |-> leaderboard, limit |-> limit, failAt |-> failAt],
                get_top_players(leaderboard, limit, db, failAt))

ClearDatabase(fails) ==
    \E failAt \in fails :
        Returns("clear_database", [failAt |-> failAt], clear_database(db, failAt))

\* the loader of attribute records and the point lookup, on a store that
\* answers every command once it is reached
NextUsers ==
    \/ Connect
    \/ LoadUsers(UserFiles, NoFail)
    \/ GetUserData(NoFail)
    \/ ClearDatabase(NoFail)

SpecUsers == Init /\ [][NextUsers]_vars

\* the loader of scores and the ranked retrieval
NextScores ==
    \/ Connect
    \/ LoadUsers(EmailFiles, NoFail)
    \/ LoadScores(ScoreFiles, NoFail)
    \/ GetTopPlayers(NoFail)
    \/ ClearDatabase(NoFail)

SpecScores == Init /\ [][NextScores]_vars

\* both loaders on a store that may fail a command
NextFail ==
    \/ Connect
    \/ LoadUsers(FailUserFiles, FailAts)
    \/ LoadScores(FailScoreFiles, FailAts)

SpecFail == Init /\ [][NextFail]_vars

\* the region scan
NextRegion ==
    \/ Connect
    \/ LoadUsers(RegionFiles, NoFail)
    \/ GetUserCoordinates(NoFail)
    \/ GetFemaleUsersInRegion(NoFail)

SpecRegion == Init /\ [][NextRegion]_vars

\* the even-id scan, on a store that may fail a command
NextEven ==
    \/ Connect
    \/ LoadUsers(EvenFiles, NoFail)
    \/ GetUsersByEvenId(FailAts)

SpecEven == Init /\ [][NextEven]_vars

----------------------------------------------------------------------------
(* What the claims speak of *)

\* the lines of an attribute file that tokenize to at least 3 tokens
ValidLines(file) == { i \in 1..Len(file) : Len(Fields(file[i])) >= 3 }

IdOf(line) == Fields(line)[1]

\* the lines of a file that are records of user_id
LinesOf(file, user_id) == { i \in ValidLines(file) : IdOf(file[i]) = user_id }

\* the pairs (token[1], token[2]), (token[3], token[4]), ... of a line
LinePairs(line) ==
    LET f == Fields(line)
    IN  { <<f[2 * j], f[2 * j + 1]>> : j \in 1..((Len(f) - 1) \div 2) }

LineKeys(line) == { p[1] : p \in LinePairs(line) }

PairsOf(mapping) == { <<k, mapping[k]>> : k \in DOMAIN mapping }

\* the elements of a set of numbers, lowest first
RECURSIVE Ascending(_)
Ascending(S) ==
    IF S = {} THEN <<>>
    ELSE LET m == CHOOSE x \in S : \A y \in S : x <= y
         IN  <<m>> \o Ascending(S \ {m})

Commands(log) == [i \in 1..Len(log) |-> log[i].cmd]

AllOk(log) == \A i \in 1..Len(log) : log[i].ok

\* a load_users call on a file that opens, after a connect that returned true
\* and with a store that answers every write
UsersLoadedOnWorkingStore ==
    /\ last.op = "load_users"
    /\ last.args.file # NoFile
    /\ last.args.failAt = 0
    /\ redis = "client"
    /\ conn = "ok"
    /\ \A i \in ValidLines(last.args.file) :
           ~IsZSet(last.before, IdOf(last.args.file[i]))

\* the attributes of user_id after the valid lines of file[i..] are written,
\* one after the other, over acc
RECURSIVE Overlaid(_, _, _, _)
Overlaid(file, user_id, i, acc) ==
    IF i > Len(file) THEN acc
    ELSE Overlaid(file, user_id, i + 1,
                  IF i \in LinesOf(file, user_id)
                  THEN [k \in LineKeys(file[i]) \cup DOMAIN acc |->
                          IF k \in LineKeys(file[i])
                          THEN UserData(Fields(file[i]))[k] ELSE acc[k]]
                  ELSE acc)

----------------------------------------------------------------------------
(* C1 *)

----------------------------------------------------------------------------
(* C2 *)

\* a line whose id is followed by k tokens, k even and k >= 2
EvenLine(line) == Len(Fields(line)) >= 3 /\ Len(Fields(line)) % 2 = 1

\* C2 as claimed: after load_users on a source that holds a line with an even
\* number k >= 2 of tokens after the id, get_user_data(user_id) returns exactly
\* the k/2 pairs of that line
C2_ReturnsExactlyThePairs ==
    UsersLoadedOnWorkingStore =>
        \A i \in ValidLines(last.args.file) :
            EvenLine(last.args.file[i]) =>
                LET got == get_user_data(IdOf(last.args.file[i]), db, 0).ret
                IN  got.some /\ PairsOf(got.val) = LinePairs(last.args.file[i])

\* the cases in which the pairs of line i are all that get_user_data returns:
\* the keys of the line differ from one another, no other valid line of the
\* source is a record of the user_id, and the store held nothing under it
C2_Alone(i) ==
    LET file == last.args.file
        user_id == IdOf(file[i])
    IN  /\ EvenLine(file[i])
        /\ Cardinality(LineKeys(file[i])) = (Len(Fields(file[i])) - 1) \div 2
        /\ LinesOf(file, user_id) = {i}
        /\ user_id \notin DOMAIN last.before

\* C2 amended: for a line with k tokens after the id (k even, k >= 2) whose
\* keys are pairwise distinct, load_users on a source with no other valid line
\* of that user_id, into a store that holds nothing under that user_id,
\* followed by get_user_data(user_id) returns exactly the k/2 pairs of the line
C2_ReturnsThePairsOfAFreshRecord ==
    UsersLoadedOnWorkingStore =>
        \A i \in ValidLines(last.args.file) :
            C2_Alone(i) =>
                LET got == get_user_data(IdOf(last.args.file[i]), db, 0).ret
                IN  /\ got.some
                    /\ PairsOf(got.val) = LinePairs(last.args.file[i])
                    /\ Cardinality(DOMAIN got.val) = (Len(Fields(last.args.file[i])) - 1) \div 2

\* a fresh record of 2 pairs was loaded
C2_Witness ==
    /\ UsersLoadedOnWorkingStore
    /\ \E i \in ValidLines(last.args.file) :
           /\ C2_Alone(i)
           /\ Len(Fields(last.args.file[i])) = 5
           /\ IdOf(last.args.file[i]) \in DOMAIN db

----------------------------------------------------------------------------
(* C8 *)

\* the HSET commands of the valid lines of a file, in the order of the lines
ValidLineWrites(file) ==
    LET at == Ascending(ValidLines(file))
    IN  [n \in 1..Len(at) |->
            <<"HSET", IdOf(file[at[n]]), UserData(Fields(file[at[n]]))>>]

\* C8: on a working store, a line of fewer than 3 tokens writes nothing and
\* stops nothing: load_users sends one write for each line of 3 tokens or
\* more, in order, and none for the others; a key no valid line names is left
\* as it was; and the call returns true
C8_ShortLinesAreSkipped ==
    UsersLoadedOnWorkingStore =>
        /\ last.ret = TRUE
        /\ Commands(last.log) = ValidLineWrites(last.args.file)
        /\ AllOk(last.log)
        /\ \A k \in DOMAIN db \cup DOMAIN last.before :
               (\A i \in ValidLines(last.args.file) : IdOf(last.args.file[i]) # k)
                   => k \in DOMAIN db /\ k \in DOMAIN last.before /\ db[k] = last.before[k]

\* a file with a line of fewer than 3 tokens before a valid line was loaded
C8_Witness ==
    /\ UsersLoadedOnWorkingStore
    /\ last.ret = TRUE
    /\ \E i, j \in 1..Len(last.args.file) :
           /\ i < j
           /\ i \notin ValidLines(last.args.file)
           /\ j \in ValidLines(last.args.file)
           /\ IdOf(last.args.file[j]) \in DOMAIN db \ DOMAIN last.before

----------------------------------------------------------------------------
(* C5 *)

\* what a method returns when it fails
ReturnsSentinel ==
    CASE last.op \in {"load_users", "load_scores", "clear_database"} -> last.ret = FALSE
      [] last.op \in {"get_user_data", "get_user_coordinates"} -> last.ret = None
      [] last.op = "get_users_by_even_id" -> last.ret = <<<<>>, <<>>>>
      [] OTHER -> last.ret = <<>>

\* C5 as claimed: while the latest connect returned false, or connect was never
\* called, every load, query and clear returns its failure sentinel and sends
\* no command to the store
C5_FailsFastWithoutConnection ==
    (conn \in {"never", "failed"} /\ last.op \notin {"init", "connect"}) =>
        /\ last.log = <<>>
        /\ ReturnsSentinel

----------------------------------------------------------------------------
(* C3 *)

\* the rows after the header that have at least 3 cells
ValidRows(file) == { i \in 2..Len(file) : Len(CsvRow(file[i])) >= 3 }

\* the first such row whose score is no integer, or 0
FatalRow(file) ==
    LET bad == { i \in ValidRows(file) : ~ParseInt(CsvRow(file[i])[3]).ok }
    IN  IF bad = {} THEN 0 ELSE CHOOSE i \in bad : \A j \in bad : i <= j

\* the rows that are written when every write succeeds
WrittenRows(file) ==
    { i \in ValidRows(file) : FatalRow(file) = 0 \/ i < FatalRow(file) }

ValidRowWrites(file) ==
    LET at == Ascending(WrittenRows(file))
    IN  [n \in 1..Len(at) |->
            LET row == CsvRow(file[at[n]])
            IN  <<"ZADD", row[1], row[2], ParseInt(row[3]).val>>]

\* the writes a load sends when none fails
RecordWrites ==
    IF last.op = "load_users" THEN ValidLineWrites(last.args.file)
    ELSE ValidRowWrites(last.args.file)

\* the store after the writes of a log that succeeded
RECURSIVE Replayed(_, _)
Replayed(d, log) ==
    IF log = <<>> THEN d
    ELSE LET c == Head(log).cmd
             next == IF ~Head(log).ok THEN d
                     ELSE IF c[1] = "HSET" THEN HSet(d, c[2], c[3]).db
                     ELSE ZAdd(d, c[2], c[3], c[4]).db
         IN  Replayed(next, Tail(log))

\* a load, after a connect that returned true, in which the store failed a
\* write
WriteFailed ==
    /\ last.op \in {"load_users", "load_scores"}
    /\ conn = "ok"
    /\ \E n \in 1..Len(last.log) : ~last.log[n].ok

\* C3 as claimed: when the store fails the write of one record, every other
\* valid record of the source is still written
C3_FailedWriteIsTolerated ==
    WriteFailed =>
        /\ Len(last.log) = Len(RecordWrites)
        /\ \A n \in 1..Len(last.log) : n # last.args.failAt => last.log[n].ok

\* C3 amended: when the store fails the write of one record during load_users
\* or load_scores, the load ends there: it returns false, the records written
\* before the failure stay in the store, and no later record is written
C3_FailedWriteEndsTheLoad ==
    WriteFailed =>
        /\ last.ret = FALSE
        /\ last.exc \in {"ConnectionError", "ResponseError"}
        /\ last.exc = "ConnectionError" => Len(last.log) = last.args.failAt
        /\ Commands(last.log) = SubSeq(RecordWrites, 1, Len(last.log))
        /\ \A n \in 1..Len(last.log) : last.log[n].ok <=> n < Len(last.log)
        /\ db = Replayed(last.before, last.log)

\* the store failed a write that had a valid record before it and one after it
C3_Witness ==
    /\ WriteFailed
    /\ Len(last.log) < Len(RecordWrites)
    /\ \E op \in {"load_users", "load_scores"} :
           /\ last.op = op
           /\ (last.args.failAt = 1 \/ db # last.before)

----------------------------------------------------------------------------
(* C7, C10 *)

\* a load_scores call on a file with a header, after a connect that returned
\* true and with a store that answers every write
ScoresLoadedOnWorkingStore ==
    /\ last.op = "load_scores"
    /\ last.args.file \notin {NoFile, <<>>}
    /\ last.args.failAt = 0
    /\ redis = "client"
    /\ conn = "ok"
    /\ \A i \in ValidRows(last.args.file) :
           ~IsHash(last.before, CsvRow(last.args.file[i])[1])

\* the entries a sorted set holds for a member
EntriesOf(d, key, member) == { e \in ZSetOf(d, key) : e[1] = member }

\* row i is the last of the written rows of its leaderboard and member
LatestRow(file, i) ==
    \A j \in WrittenRows(file) :
        (j > i) => <<CsvRow(file[j])[1], CsvRow(file[j])[2]>>
                     # <<CsvRow(file[i])[1], CsvRow(file[i])[2]>>

\* C7: a sorted set never holds two entries of one member, and after a
\* load_scores call the entry of a member that the file scores is the score of
\* the latest of its rows, whatever score the member had in the store or in
\* an earlier row
C7_LatestScoreOnly ==
    /\ \A key \in DOMAIN db : \A e, f \in ZSetOf(db, key) : e[1] = f[1] => e = f
    /\ ScoresLoadedOnWorkingStore =>
           \A i \in WrittenRows(last.args.file) :
               LET row == CsvRow(last.args.file[i])
               IN  LatestRow(last.args.file, i) =>
                       EntriesOf(db, row[1], row[2]) = {<<row[2], ParseInt(row[3]).val>>}

\* a load set a score for a member that had another score in the store and
\* another in an earlier row of the file
C7_Witness ==
    /\ ScoresLoadedOnWorkingStore
    /\ last.ret = TRUE
    /\ \E i, j \in WrittenRows(last.args.file) :
           LET row == CsvRow(last.args.file[i])
               was == CsvRow(last.args.file[j])
           IN  /\ j < i
               /\ LatestRow(last.args.file, i)
               /\ <<was[1], was[2]>> = <<row[1], row[2]>>
               /\ ParseInt(was[3]).val # ParseInt(row[3]).val
               /\ EntriesOf(last.before, row[1], row[2]) # {}
               /\ EntriesOf(last.before, row[1], row[2]) # {<<row[2], ParseInt(row[3]).val>>}

\* C10: when the file has a row of at least 3 cells whose score is no integer,
\* load_scores returns false; the rows before the first such row are written,
\* in order, and their scores are in the store; no later row is written
C10_BadScoreEndsTheLoad ==
    (ScoresLoadedOnWorkingStore /\ FatalRow(last.args.file) # 0) =>
        /\ last.ret = FALSE
        /\ Commands(last.log) = ValidRowWrites(last.args.file)
        /\ AllOk(last.log)
        /\ \A i \in WrittenRows(last.args.file) :
               LET row == CsvRow(last.args.file[i])
               IN  LatestRow(last.args.file, i) =>
                       <<row[2], ParseInt(row[3]).val>> \in ZSetOf(db, row[1])
        /\ \A i \in ValidRows(last.args.file) \ WrittenRows(last.args.file) :
               LET row == CsvRow(last.args.file[i])
               IN  (\A j \in WrittenRows(last.args.file) :
                        <<CsvRow(last.args.file[j])[1], CsvRow(last.args.file[j])[2]>>
                            # <<row[1], row[2]>>)
                       => EntriesOf(db, row[1], row[2]) = EntriesOf(last.before, row[1], row[2])

\* a file with a valid row, then a score that is no integer, then a valid row
\* was loaded into a store in which the first row changed a score
C10_Witness ==
    /\ ScoresLoadedOnWorkingStore
    /\ FatalRow(last.args.file) # 0
    /\ db # last.before
    /\ \E i, j \in ValidRows(last.args.file) :
           /\ i < FatalRow(last.args.file)
           /\ j > FatalRow(last.args.file)
           /\ ParseInt(CsvRow(last.args.file[j])[3]).ok
           /\ <<CsvRow(last.args.file[j])[2], ParseInt(CsvRow(last.args.file[j])[3]).val>>
                  \notin ZSetOf(db, CsvRow(last.args.file[j])[1])

----------------------------------------------------------------------------
(* C4 *)

\* the entries of a sorted set that rank before an entry
Above(S, e) == { f \in S : RanksBefore(f, e) }

\* the entry with the i-th highest rank
Ranked(S, i) == { e \in S : Cardinality(Above(S, e)) = i - 1 }

\* C4 as claimed: get_top_players(leaderboard, limit) returns at most limit
\* entries, the i-th being the email (or the absent placeholder) of the member
\* with the i-th highest score
C4_AtMostLimitTopEmails ==
    (last.op = "get_top_players" /\ conn = "ok") =>
        /\ Len(last.ret) <= last.args.limit
        /\ \A i \in 1..Len(last.ret) :
               \E e \in Ranked(ZSetOf(db, last.args.leaderboard), i) :
                   last.ret[i] = HGet(db, e[1], email).val

----------------------------------------------------------------------------
(* C6 *)

\* the three tests of the region query on a stored record; a latitude that
\* is no number lies in no range
InRegion(user_data, countries, min_lat, max_lat) ==
    /\ gender \in DOMAIN user_data
    /\ user_data[gender] = female
    /\ country \in DOMAIN user_data
    /\ user_data[country] \in countries
    /\ IF latitude \in DOMAIN user_data
       THEN /\ ParseFloat(user_data[latitude]).ok
            /\ ParseFloat(user_data[latitude]).finite
            /\ min_lat <= ParseFloat(user_data[latitude]).val
            /\ ParseFloat(user_data[latitude]).val <= max_lat
       ELSE min_lat <= 0 /\ 0 <= max_lat

\* the user:* keys whose records pass the three tests
Matching ==
    { k \in UserKeys(db) :
        InRegion(HashOf(db, k), last.args.countries, last.args.min_lat, last.args.max_lat) }

\* C6 as claimed: get_female_users_in_region returns exactly the mappings of
\* the user:* records that pass the three tests, one for each such record
C6_ExactlyTheMatchingRecords ==
    (last.op = "get_female_users_in_region" /\ conn = "ok") =>
        /\ Len(last.ret) = Cardinality(Matching)
        /\ { last.ret[i] : i \in 1..Len(last.ret) } = { HashOf(db, k) : k \in Matching }

----------------------------------------------------------------------------
(* C9 *)

\* the text after the first colon of a key is an even number
EvenSuffix(key) ==
    /\ ParseInt(Split(key, <<":">>)[2]).ok
    /\ ParseInt(Split(key, <<":">>)[2]).val % 2 = 0

\* the stored last_name of a key, or the absent placeholder
StoredLastName(key) ==
    IF last_name \in DOMAIN HashOf(db, key) THEN Some(HashOf(db, key)[last_name])
    ELSE None

\* C9: get_users_by_even_id returns keys and last_names of one length, every
\* key a stored user:* key with an even number after the colon, last_names[i]
\* the stored last_name of keys[i] or the absent placeholder; and it returns
\* two empty lists when the call raised: without a session, when the store
\* failed a command, or when a scanned key has no number after the colon
C9_EvenKeysWithLastNames ==
    last.op = "get_users_by_even_id" =>
        /\ Len(last.ret[1]) = Len(last.ret[2])
        /\ \A i \in 1..Len(last.ret[1]) :
               /\ last.ret[1][i] \in UserKeys(db)
               /\ EvenSuffix(last.ret[1][i])
               /\ last.ret[2][i] = StoredLastName(last.ret[1][i])
        /\ last.exc # "None" => last.ret = <<<<>>, <<>>>>
        /\ (\/ redis = "None"
            \/ last.args.failAt = 1
            \/ \E k \in UserKeys(db) : ~ParseInt(Split(k, <<":">>)[2]).ok)
               => last.ret = <<<<>>, <<>>>>
        /\ (/\ redis = "client"
            /\ last.args.failAt = 0
            /\ \A k \in UserKeys(db) : ParseInt(Split(k, <<":">>)[2]).ok)
               => { last.ret[1][i] : i \in 1..Len(last.ret[1]) }
                      = { k \in UserKeys(db) : EvenSuffix(k) }

\* the scan went over an odd key and returned two even keys, one with a last
\* name and one without
C9_Witness ==
    /\ last.op = "get_users_by_even_id"
    /\ Len(last.ret[1]) = 2
    /\ \E i, j \in 1..2 : last.ret[2][i] = None /\ last.ret[2][j] # None
    /\ \E k \in UserKeys(db) : ~EvenSuffix(k)

====
